---------------------------- MODULE Spec2Model ----------------------------
(***************************************************************************)
(* A state-machine model of the C binding of the NeuralDB retrieval engine *)
(* (thirdai_platform/ndb/binding.cc, binding.h).                           *)
(*                                                                         *)
(* The state is what one caller of the C interface holds: one Document     *)
(* builder, one engine handle, one query result collection, one metadata   *)
(* list, one error slot (the const char * the caller passes by address as  *)
(* err_ptr) and the heap of error buffers.  Every function of binding.h is *)
(* one action.  The engine (OnDiskNeuralDB) is outside the binding: its    *)
(* result (success or a thrown std::exception, the ranked chunks of a      *)
(* query) is an input of the action that calls it.                         *)
(*                                                                         *)
(* Undefined behaviour (std::vector::operator[] out of range, the strcpy   *)
(* of copyError that writes one byte more than it allocated) is an input   *)
(* too: the outcome `u` of the action ranges over what builds produce.     *)
(***************************************************************************)
EXTENDS Integers, Sequences, FiniteSets, TLC

(***************************************************************************)
(* Bounds of the model (the binding itself enforces none of them).         *)
(***************************************************************************)
\* chunks one Document is given
MaxChunks == 2
\* chunks the engine holds
MaxStored == 2
\* error buffers the heap holds
MaxHeap == 2
\* length of an engine error message, in bytes, without its terminator
MaxMsgLen == 2
\* the largest topk a query asks for
MaxTopK == 2

(***************************************************************************)
(* Inputs.                                                                 *)
(***************************************************************************)
Texts == {"alpha", "beta"}
Keys == {"k1", "k2"}
Names == {"doc"}
DocIds == {"doc1"}
Paths == {"p"}
Queries == {"alpha"}
Versions == {7, 8}
Bools == {TRUE, FALSE}
Ints == {-3}
\* a float is named by its value times ten
Floats == {25}
Strs == {"s"}
Scores == {1, 2}
\* what() of the exception the engine throws: n bytes 'x' and the terminator
What(n) == [j \in 1..(n + 1) |-> IF j <= n THEN 120 ELSE 0]
Whats == {What(n) : n \in 1..MaxMsgLen}
\* the outcome of an engine call: it returns, or throws a std::exception
EngineOk == [ok |-> TRUE, what |-> <<0>>]
EngineThrow(w) == [ok |-> FALSE, what |-> w]
EngineOutcomes == {EngineOk} \cup {EngineThrow(w) : w \in Whats}
\* the same with the shortest message only
ShortOutcomes == {EngineOk, EngineThrow(What(1))}
\* what an access outside an object does: the build traps it, or it goes
\* through and touches memory that is not the object's
IndexUB == {"trap", "wild"}
\* what the write of one byte past a heap buffer does: it lands in the
\* allocator's padding, it overwrites a neighbour, or the build traps it
OverflowUB == {"slack", "wild", "trap"}

(***************************************************************************)
(* MetadataValue: a tagged union.  Every payload field is present so that  *)
(* two values always compare; the tag says which one is meant.             *)
(***************************************************************************)
MetadataValue_Bool(value) ==
    [type |-> "Bool", b |-> value, i |-> 0, f |-> 0, s |-> ""]
MetadataValue_Int(value) ==
    [type |-> "Int", b |-> FALSE, i |-> value, f |-> 0, s |-> ""]
MetadataValue_Float(value) ==
    [type |-> "Float", b |-> FALSE, i |-> 0, f |-> value, s |-> ""]
MetadataValue_Str(value) ==
    [type |-> "Str", b |-> FALSE, i |-> 0, f |-> 0, s |-> value]

\* MetadataMap: keys unique, a function from the keys present to their values
EmptyMap == [k \in {} |-> MetadataValue_Bool(FALSE)]
\* (a map that keeps the value a key already has, as map.emplace would)
MapEmplace(map, key, value) ==
    [k \in (DOMAIN map) \cup {key} |-> IF k \in DOMAIN map THEN map[k] ELSE value]
\* map[key] = value: inserts the key or overwrites its value
MapAssign(map, key, value) ==
    [k \in (DOMAIN map) \cup {key} |-> IF k = key THEN value ELSE map[k]]

\* std::optional<uint32_t>; an unsigned int argument is as wide as uint32_t,
\* so storing it loses nothing
NoVersion == [has |-> FALSE, val |-> 0]
SomeVersion(v) == [has |-> TRUE, val |-> v]

\* History of the Document_set_version calls on a Document: whether there was
\* one, the argument of the last, and the argument of the one before it
NoVersionCall == [has |-> FALSE, val |-> 0, hadPrev |-> FALSE, prev |-> 0]
VersionCall(log, v) ==
    [has |-> TRUE, val |-> v, hadPrev |-> log.has, prev |-> log.val]
\* History of the Document_add_metadata_* calls on a chunk: the value of the
\* last call for each key
LogSet(log, key, value) ==
    [k \in (DOMAIN log) \cup {key} |-> IF k = key THEN value ELSE log[k]]
\* ... of a Document: last is that history per chunk, replaced says whether
\* some call set a key that an earlier call had set to a value of another kind
NoSetCalls == [last |-> <<>>, replaced |-> FALSE]
SetCall(log, i, key, value) ==
    [last |-> [log.last EXCEPT ![i + 1] = LogSet(@, key, value)],
     replaced |-> \/ log.replaced
                  \/ /\ key \in DOMAIN log.last[i + 1]
                     /\ log.last[i + 1][key].type # value.type]

VARIABLES
    fault,      \* how the process ended, if it did: [kind, op]
    doc,        \* the Document_t the caller holds
    setLog,     \* history: the Document_add_metadata_* calls on the Document
    verLog,     \* history: the Document_set_version calls on the Document
    ndb,        \* the NeuralDB_t the caller holds
    store,      \* the engine's chunks
    sent,       \* history: per engine chunk, setLog of its chunk at insert
    passed,     \* history: what the engine was last handed of this Document
    results,    \* the QueryResults_t the caller holds
    view,       \* the MetadataList_t the caller holds
    viewSrc,    \* history: the chunk the view was made from, and whether
                \* the collection it came from has been released
    err,        \* the caller's error slot: 0 (null) or a heap address
    heap,       \* the error buffers allocated and not released
    ret         \* what the last call returned

vars == <<fault, doc, setLog, verLog, ndb, store, sent, passed, results, view,
          viewSrc, err, heap, ret>>

(***************************************************************************)
(* Document_t and the builder.                                             *)
(***************************************************************************)
NoFault == [kind |-> "none", op |-> ""]
Running == fault.kind = "none"

\* Document_t(): empty vectors, empty strings, no version
Document_t ==
    [chunks |-> <<>>, metadata |-> <<>>, document |-> "", doc_id |-> "",
     doc_version |-> NoVersion]
NoDocument == [st |-> "none", d |-> Document_t]
NotPassed == [called |-> FALSE, d |-> Document_t]
DocLive == Running /\ doc.st = "live"

RetVoid == [op |-> "", i |-> 0, kind |-> "void", n |-> 0, s |-> "", b |-> FALSE]
Returned(op, i, kind, n, s, b) ==
    [op |-> op, i |-> i, kind |-> kind, n |-> n, s |-> s, b |-> b]

builderFrame == UNCHANGED <<ndb, store, sent, results, view, viewSrc, err, heap>>

Document_new(document, doc_id) ==
    /\ Running
    /\ doc.st # "live"
    /\ doc' = [st |-> "live",
               d |-> [Document_t EXCEPT !.document = document, !.doc_id = doc_id]]
    /\ setLog' = NoSetCalls
    /\ verLog' = NoVersionCall
    /\ passed' = NotPassed
    /\ ret' = RetVoid
    /\ UNCHANGED fault
    /\ builderFrame

Document_free ==
    /\ DocLive
    /\ doc' = [st |-> "freed", d |-> Document_t]
    /\ setLog' = NoSetCalls
    /\ verLog' = NoVersionCall
    /\ passed' = NotPassed
    /\ ret' = RetVoid
    /\ UNCHANGED fault
    /\ builderFrame

\* (an append that forgets the metadata map of the chunk)
Document_add_chunk_noMetadata(chunk) ==
    /\ DocLive
    /\ doc' = [doc EXCEPT !.d.chunks = Append(@, chunk)]
    /\ setLog' = [setLog EXCEPT !.last = Append(@, EmptyMap)]
    /\ ret' = RetVoid
    /\ UNCHANGED <<fault, verLog, passed>>
    /\ builderFrame

Document_add_chunk(chunk) ==
    /\ DocLive
    /\ doc' = [doc EXCEPT !.d.chunks = Append(@, chunk),
                          !.d.metadata = Append(@, EmptyMap)]
    /\ setLog' = [setLog EXCEPT !.last = Append(@, EmptyMap)]
    /\ ret' = RetVoid
    /\ UNCHANGED <<fault, verLog, passed>>
    /\ builderFrame

\* (a setter that keeps a version already set)
Document_set_version_once(version) ==
    /\ DocLive
    /\ doc' = IF doc.d.doc_version.has THEN doc
              ELSE [doc EXCEPT !.d.doc_version = SomeVersion(version)]
    /\ verLog' = VersionCall(verLog, version)
    /\ ret' = RetVoid
    /\ UNCHANGED <<fault, setLog, passed>>
    /\ builderFrame

Document_set_version(version) ==
    /\ DocLive
    /\ doc' = [doc EXCEPT !.d.doc_version = SomeVersion(version)]
    /\ verLog' = VersionCall(verLog, version)
    /\ ret' = RetVoid
    /\ UNCHANGED <<fault, setLog, passed>>
    /\ builderFrame

\* doc->metadata[i][key] = value.  std::vector::operator[] checks nothing:
\* with i >= size() the behaviour is undefined, and u is what the build does.
\* A vector that never held an element has no storage: the access is then
\* at a null address, which traps
Document_add_metadata(op, i, key, value, u) ==
    /\ DocLive
    /\ IF i < Len(doc.d.metadata)
       THEN /\ doc' = [doc EXCEPT !.d.metadata[i + 1] = MapAssign(@, key, value)]
            /\ setLog' = SetCall(setLog, i, key, value)
            /\ UNCHANGED fault
       ELSE /\ fault' = [kind |-> IF u = "trap" \/ Len(doc.d.metadata) = 0
                                   THEN "trap" ELSE "wild_access",
                         op |-> op]
            /\ UNCHANGED <<doc, setLog>>
    /\ ret' = RetVoid
    /\ UNCHANGED <<verLog, passed>>
    /\ builderFrame

Document_add_metadata_bool(i, key, value, u) ==
    Document_add_metadata("Document_add_metadata_bool", i, key,
                          MetadataValue_Bool(value), u)

Document_add_metadata_int(i, key, value, u) ==
    Document_add_metadata("Document_add_metadata_int", i, key,
                          MetadataValue_Int(value), u)

Document_add_metadata_float(i, key, value, u) ==
    Document_add_metadata("Document_add_metadata_float", i, key,
                          MetadataValue_Float(value), u)

Document_add_metadata_str(i, key, value, u) ==
    Document_add_metadata("Document_add_metadata_str", i, key,
                          MetadataValue_Str(value), u)

(***************************************************************************)
(* The error channel.                                                      *)
(***************************************************************************)
RECURSIVE strlenFrom(_, _)
strlenFrom(s, j) == IF s[j] = 0 THEN j - 1 ELSE strlenFrom(s, j + 1)
\* std::strlen: the bytes before the first terminator
strlen(s) == strlenFrom(s, 1)
\* std::strcpy: the bytes it writes to the destination, from its first byte
\* on: those before the terminator of the source, and the terminator
strcpy(s) == SubSeq(s, 1, strlen(s) + 1)

\* operator new[]: an address no live buffer has
FreeAddrs == {a \in 1..MaxHeap : a \notin DOMAIN heap}
HeapHasRoom == FreeAddrs # {}
NewAddr == CHOOSE a \in FreeAddrs : \A b \in FreeAddrs : a <= b
HeapPut(a, buf) == [x \in (DOMAIN heap) \cup {a} |-> IF x = a THEN buf ELSE heap[x]]

\* How many bytes new char[] is asked for, given what() of the exception
copyError_size(what) == strlen(what)

\* copyError(e, err_ptr): a buffer of copyError_size bytes, strcpy of what()
\* into it, and its address stored through err_ptr.  The strcpy writes past
\* the buffer when it writes more bytes than the buffer has; u is what
\* that does
copyError(op, what, u) ==
    LET size == copyError_size(what)
        bytes == strcpy(what)
        overflow == Len(bytes) > size
    IN  IF overflow /\ u = "trap"
        THEN /\ HeapHasRoom
             /\ heap' = HeapPut(NewAddr, [size |-> size, bytes |-> <<>>])
             /\ fault' = [kind |-> "trap", op |-> op]
             /\ UNCHANGED err
        ELSE /\ HeapHasRoom
             /\ heap' = HeapPut(NewAddr, [size |-> size, bytes |-> bytes])
             /\ err' = NewAddr
             /\ fault' = IF overflow /\ u = "wild"
                         THEN [kind |-> "wild_access", op |-> op]
                         ELSE fault

\* The caller reads the description, releases it and clears the slot
ReleaseError ==
    /\ Running
    /\ err # 0
    /\ heap' = [x \in (DOMAIN heap) \ {err} |-> heap[x]]
    /\ err' = 0
    /\ UNCHANGED <<fault, doc, setLog, verLog, ndb, store, sent, passed, results,
                   view, viewSrc, ret>>

(***************************************************************************)
(* The engine: OnDiskNeuralDB, as the binding uses it.                     *)
(***************************************************************************)
\* the version the engine gives a document inserted without one
EngineDefaultVersion == 0

\* insert(chunks, metadata, document, doc_id, doc_version): the chunks of the
\* document, each with its metadata map, appended under fresh identifiers
EngineInsert(st, d) ==
    st \o [j \in 1..Len(d.chunks) |->
              [id |-> Len(st) + j - 1,
               text |-> d.chunks[j],
               document |-> d.document,
               doc_id |-> d.doc_id,
               doc_version |-> IF d.doc_version.has THEN d.doc_version.val
                               ELSE EngineDefaultVersion,
               metadata |-> d.metadata[j]]]

\* query(query, topk): at most topk distinct chunks, each with a score, in
\* order of non-increasing score
EngineQuery(st, topk, scores) ==
    UNION {
      { [j \in 1..n |-> [chunk |-> st[pick[j]], score |-> sc[j]]] :
          pick \in {f \in [1..n -> 1..Len(st)] :
                      \A a, b \in 1..n : a # b => f[a] # f[b]},
          sc \in {g \in [1..n -> scores] :
                      \A a \in 1..n : a < n => g[a] >= g[a + 1]} }
      : n \in 0..(IF topk < Len(st) THEN topk ELSE Len(st)) }

(***************************************************************************)
(* NeuralDB_t: the engine handle.                                          *)
(***************************************************************************)
NdbLive == Running /\ ndb.st = "live"

NeuralDB_new(save_path, e, u) ==
    /\ Running
    /\ ndb.st # "live"
    /\ IF e.ok
       THEN /\ ndb' = [st |-> "live", path |-> save_path]
            /\ ret' = Returned("NeuralDB_new", 0, "handle", 0, "", FALSE)
            /\ UNCHANGED <<err, heap, fault>>
       ELSE /\ copyError("NeuralDB_new", e.what, u)
            /\ ret' = Returned("NeuralDB_new", 0, "null", 0, "", FALSE)
            /\ UNCHANGED ndb
    /\ UNCHANGED <<doc, setLog, verLog, store, sent, passed, results, view, viewSrc>>

NeuralDB_free ==
    /\ NdbLive
    /\ ndb' = [st |-> "freed", path |-> ""]
    /\ ret' = RetVoid
    /\ UNCHANGED <<fault, doc, setLog, verLog, store, sent, passed, results, view,
                   viewSrc, err, heap>>

\* (an insert that moves the chunks and maps out of the Document)
NeuralDB_insert_moving(e, u) ==
    /\ NdbLive
    /\ doc.st = "live"
    /\ passed' = [called |-> TRUE, d |-> doc.d]
    /\ IF e.ok
       THEN /\ store' = EngineInsert(store, doc.d)
            /\ sent' = sent \o setLog.last
            /\ UNCHANGED <<err, heap, fault>>
       ELSE /\ copyError("NeuralDB_insert", e.what, u)
            /\ UNCHANGED <<store, sent>>
    /\ doc' = [doc EXCEPT !.d.chunks = <<>>, !.d.metadata = <<>>]
    /\ ret' = Returned("NeuralDB_insert", 0, "void", 0, "", FALSE)
    /\ UNCHANGED <<setLog, verLog, ndb, results, view, viewSrc>>

NeuralDB_insert(e, u) ==
    /\ NdbLive
    /\ doc.st = "live"
    /\ passed' = [called |-> TRUE, d |-> doc.d]
    /\ IF e.ok
       THEN /\ store' = EngineInsert(store, doc.d)
            /\ sent' = sent \o setLog.last
            /\ UNCHANGED <<err, heap, fault>>
       ELSE /\ copyError("NeuralDB_insert", e.what, u)
            /\ UNCHANGED <<store, sent>>
    /\ ret' = Returned("NeuralDB_insert", 0, "void", 0, "", FALSE)
    /\ UNCHANGED <<doc, setLog, verLog, ndb, results, view, viewSrc>>

NeuralDB_query(query, topk, e, answer, u) ==
    /\ NdbLive
    /\ results.st # "live"
    /\ IF e.ok
       THEN /\ results' = [st |-> "live", results |-> answer]
            /\ ret' = Returned("NeuralDB_query", 0, "collection", 0, "", FALSE)
            /\ UNCHANGED <<err, heap, fault>>
       ELSE /\ copyError("NeuralDB_query", e.what, u)
            /\ ret' = Returned("NeuralDB_query", 0, "null", 0, "", FALSE)
            /\ UNCHANGED results
    /\ UNCHANGED <<doc, setLog, verLog, ndb, store, sent, passed, view, viewSrc>>

\* ndb->ndb->save(save_path): what the engine writes at save_path is the
\* engine's; through the binding only the outcome of the call shows
NeuralDB_save(save_path, e, u) ==
    /\ NdbLive
    /\ IF e.ok
       THEN UNCHANGED <<err, heap, fault>>
       ELSE copyError("NeuralDB_save", e.what, u)
    /\ ret' = Returned("NeuralDB_save", 0, "void", 0, "", FALSE)
    /\ UNCHANGED <<doc, setLog, verLog, ndb, store, sent, passed, results, view,
                   viewSrc>>

(***************************************************************************)
(* QueryResults_t and MetadataList_t: the accessors.                       *)
(***************************************************************************)
\* what the memory past the end of a vector holds
StrayChunk ==
    [id |-> 99, text |-> "?", document |-> "?", doc_id |-> "?", doc_version |-> 99,
     metadata |-> EmptyMap]
StrayResult == [chunk |-> StrayChunk, score |-> 99]
StrayEntry == [key |-> "?", value |-> MetadataValue_Str("?")]

\* the element at position i of a vector, read without a check
elem(v, i, stray) == IF i < Len(v) THEN v[i + 1] ELSE stray

\* (operator[] in place of at(): no check)
at_unchecked(v, i, stray) == [thrown |-> FALSE, val |-> elem(v, i, stray)]
\* std::vector::at(i): throws std::out_of_range unless i < size()
at(v, i, stray) == [thrown |-> ~(i < Len(v)), val |-> elem(v, i, stray)]

accessorFrame ==
    UNCHANGED <<doc, setLog, verLog, ndb, store, sent, passed, results, view,
                viewSrc, err, heap>>

\* An accessor that returns a field of element i.  No accessor catches the
\* exception of at(): it leaves the function, and the call returns nothing
Accessor(op, i, got, kind, n, s, b) ==
    /\ IF got.thrown
       THEN /\ fault' = [kind |-> "out_of_range", op |-> op]
            /\ ret' = Returned(op, i, "none", 0, "", FALSE)
       ELSE /\ ret' = Returned(op, i, kind, n, s, b)
            /\ UNCHANGED fault
    /\ accessorFrame

ResultsLive == Running /\ results.st = "live"
ResultAt(i) == at(results.results, i, StrayResult)

\* (a release that also deletes the list made from the collection)
QueryResults_free_owning ==
    /\ ResultsLive
    /\ results' = [st |-> "freed", results |-> <<>>]
    /\ view' = IF view.st = "live" THEN [st |-> "freed", metadata |-> <<>>] ELSE view
    /\ viewSrc' = [viewSrc EXCEPT !.released = TRUE]
    /\ ret' = RetVoid
    /\ UNCHANGED <<fault, doc, setLog, verLog, ndb, store, sent, passed, err, heap>>

QueryResults_free ==
    /\ ResultsLive
    /\ results' = [st |-> "freed", results |-> <<>>]
    /\ viewSrc' = [viewSrc EXCEPT !.released = TRUE]
    /\ ret' = RetVoid
    /\ UNCHANGED <<fault, doc, setLog, verLog, ndb, store, sent, passed, view,
                   err, heap>>

QueryResults_len ==
    /\ ResultsLive
    /\ ret' = Returned("QueryResults_len", 0, "uint", Len(results.results), "", FALSE)
    /\ UNCHANGED fault
    /\ accessorFrame

QueryResults_id(i) ==
    /\ ResultsLive
    /\ Accessor("QueryResults_id", i, ResultAt(i), "uint", ResultAt(i).val.chunk.id, "", FALSE)

QueryResults_text(i) ==
    /\ ResultsLive
    /\ Accessor("QueryResults_text", i, ResultAt(i), "str", 0, ResultAt(i).val.chunk.text, FALSE)

QueryResults_document(i) ==
    /\ ResultsLive
    /\ Accessor("QueryResults_document", i, ResultAt(i), "str", 0,
                ResultAt(i).val.chunk.document, FALSE)

QueryResults_doc_id(i) ==
    /\ ResultsLive
    /\ Accessor("QueryResults_doc_id", i, ResultAt(i), "str", 0,
                ResultAt(i).val.chunk.doc_id, FALSE)

QueryResults_doc_version(i) ==
    /\ ResultsLive
    /\ Accessor("QueryResults_doc_version", i, ResultAt(i), "uint",
                ResultAt(i).val.chunk.doc_version, "", FALSE)

QueryResults_score(i) ==
    /\ ResultsLive
    /\ Accessor("QueryResults_score", i, ResultAt(i), "float", ResultAt(i).val.score, "", FALSE)

\* the orders in which the entries of a map can be listed
MapOrders(map) ==
    {o \in [1..Cardinality(DOMAIN map) -> DOMAIN map] :
        \A a, b \in DOMAIN o : a # b => o[a] # o[b]}
\* {metadata_map.begin(), metadata_map.end()}: one pair per key of the map
MapToList(map, order) ==
    [j \in DOMAIN order |-> [key |-> order[j], value |-> map[order[j]]]]

\* (a list made from the first result whatever i is)
QueryResults_metadata_first(i, order) ==
    /\ ResultsLive
    /\ view.st # "live"
    /\ order \in MapOrders(ResultAt(0).val.chunk.metadata)
    /\ IF ResultAt(i).thrown
       THEN /\ fault' = [kind |-> "out_of_range", op |-> "QueryResults_metadata"]
            /\ ret' = Returned("QueryResults_metadata", i, "none", 0, "", FALSE)
            /\ UNCHANGED <<view, viewSrc>>
       ELSE /\ view' = [st |-> "live",
                        metadata |-> MapToList(ResultAt(0).val.chunk.metadata, order)]
            /\ viewSrc' = [id |-> elem(results.results, i, StrayResult).chunk.id,
                            released |-> FALSE]
            /\ ret' = Returned("QueryResults_metadata", i, "list", 0, "", FALSE)
            /\ UNCHANGED fault
    /\ UNCHANGED <<doc, setLog, verLog, ndb, store, sent, passed, results, err, heap>>

\* a new MetadataList_t holding a copy of the entries of chunk i
QueryResults_metadata(i, order) ==
    /\ ResultsLive
    /\ view.st # "live"
    /\ order \in MapOrders(ResultAt(i).val.chunk.metadata)
    /\ IF ResultAt(i).thrown
       THEN /\ fault' = [kind |-> "out_of_range", op |-> "QueryResults_metadata"]
            /\ ret' = Returned("QueryResults_metadata", i, "none", 0, "", FALSE)
            /\ UNCHANGED <<view, viewSrc>>
       ELSE /\ view' = [st |-> "live",
                        metadata |-> MapToList(ResultAt(i).val.chunk.metadata, order)]
            /\ viewSrc' = [id |-> elem(results.results, i, StrayResult).chunk.id,
                            released |-> FALSE]
            /\ ret' = Returned("QueryResults_metadata", i, "list", 0, "", FALSE)
            /\ UNCHANGED fault
    /\ UNCHANGED <<doc, setLog, verLog, ndb, store, sent, passed, results, err, heap>>

ViewLive == Running /\ view.st = "live"
EntryAt(i) == at(view.metadata, i, StrayEntry)

MetadataList_free ==
    /\ ViewLive
    /\ view' = [st |-> "freed", metadata |-> <<>>]
    /\ ret' = RetVoid
    /\ UNCHANGED <<fault, doc, setLog, verLog, ndb, store, sent, passed, results,
                   viewSrc, err, heap>>

MetadataList_len ==
    /\ ViewLive
    /\ ret' = Returned("MetadataList_len", 0, "uint", Len(view.metadata), "", FALSE)
    /\ UNCHANGED fault
    /\ accessorFrame

MetadataList_key(i) ==
    /\ ViewLive
    /\ Accessor("MetadataList_key", i, EntryAt(i), "str", 0, EntryAt(i).val.key, FALSE)

\* int(type()): the tag, named here by its kind
MetadataList_type(i) ==
    /\ ViewLive
    /\ Accessor("MetadataList_type", i, EntryAt(i), "tag", 0, EntryAt(i).val.value.type, FALSE)

\* asBool, asInt, asFloat, asStr: the payload when the tag is the one asked
\* for, a fault otherwise
TypedAccessor(op, i, got, type, kind, n, s, b) ==
    IF ~got.thrown /\ got.val.value.type # type
    THEN /\ fault' = [kind |-> "type_mismatch", op |-> op]
         /\ ret' = Returned(op, i, "none", 0, "", FALSE)
         /\ accessorFrame
    ELSE Accessor(op, i, got, kind, n, s, b)

MetadataList_bool(i) ==
    /\ ViewLive
    /\ TypedAccessor("MetadataList_bool", i, EntryAt(i), "Bool", "bool", 0, "",
                     EntryAt(i).val.value.b)

MetadataList_int(i) ==
    /\ ViewLive
    /\ TypedAccessor("MetadataList_int", i, EntryAt(i), "Int", "int",
                     EntryAt(i).val.value.i, "", FALSE)

MetadataList_float(i) ==
    /\ ViewLive
    /\ TypedAccessor("MetadataList_float", i, EntryAt(i), "Float", "float",
                     EntryAt(i).val.value.f, "", FALSE)

MetadataList_str(i) ==
    /\ ViewLive
    /\ TypedAccessor("MetadataList_str", i, EntryAt(i), "Str", "str", 0,
                     EntryAt(i).val.value.s, FALSE)

Init ==
    /\ fault = NoFault
    /\ doc = NoDocument
    /\ setLog = NoSetCalls
    /\ verLog = NoVersionCall
    /\ ndb = [st |-> "none", path |-> ""]
    /\ store = <<>>
    /\ sent = <<>>
    /\ passed = NotPassed
    /\ results = [st |-> "none", results |-> <<>>]
    /\ view = [st |-> "none", metadata |-> <<>>]
    /\ viewSrc = [id |-> 0, released |-> FALSE]
    /\ err = 0
    /\ heap = <<>>
    /\ ret = RetVoid

(***************************************************************************)
(* What callers do.  A caller passes live objects only, holds one object   *)
(* of each kind at a time, and gives a vector index that is in range or    *)
(* one past the end.                                                       *)
(***************************************************************************)
ChunkIndexes == 0..MaxChunks
ResultIndexes == 0..MaxTopK
EntryIndexes == 0..Cardinality(Keys)
TopKs == 0..MaxTopK
\* the engine holds MaxStored chunks and rejects an insert that exceeds it
EngineAccepts(e) == e.ok => Len(store) + Len(doc.d.chunks) <= MaxStored
Answers(e, topk, scores) ==
    IF e.ok THEN EngineQuery(store, topk, scores) ELSE {<<>>}

\* a Document is built, then inserted, then released: it is not changed
\* once the engine has been handed it
Fresh == ~passed.called
\* no Document is started once the engine is full
EngineHasRoom == Len(store) < MaxStored

CallDocument_new ==
    \E document \in Names, doc_id \in DocIds :
        EngineHasRoom /\ Document_new(document, doc_id)
CallDocument_add_chunk(texts) ==
    \E chunk \in texts :
        Fresh /\ Len(doc.d.chunks) < MaxChunks /\ Document_add_chunk(chunk)
CallDocument_set_version(versions) ==
    \E version \in versions : Fresh /\ Document_set_version(version)
CallDocument_add_metadata_bool(keys, bools) ==
    \E i \in ChunkIndexes, key \in keys, value \in bools, u \in IndexUB :
        Fresh /\ Document_add_metadata_bool(i, key, value, u)
CallDocument_add_metadata(keys, bools) ==
    \/ CallDocument_add_metadata_bool(keys, bools)
    \/ \E i \in ChunkIndexes, key \in keys, value \in Ints, u \in IndexUB :
          Fresh /\ Document_add_metadata_int(i, key, value, u)
    \/ \E i \in ChunkIndexes, key \in keys, value \in Floats, u \in IndexUB :
          Fresh /\ Document_add_metadata_float(i, key, value, u)
    \/ \E i \in ChunkIndexes, key \in keys, value \in Strs, u \in IndexUB :
          Fresh /\ Document_add_metadata_str(i, key, value, u)
\* ... by a caller that keeps the index below the number of chunks, where
\* the access is defined and nothing is drawn from IndexUB
CallDocument_add_metadata_inRange(keys, bools) ==
    \E i \in ChunkIndexes, key \in keys, u \in {"trap"} :
        /\ Fresh
        /\ DocLive
        /\ i < Len(doc.d.chunks)
        /\ \/ \E value \in bools : Document_add_metadata_bool(i, key, value, u)
           \/ \E value \in Ints : Document_add_metadata_int(i, key, value, u)
           \/ \E value \in Floats : Document_add_metadata_float(i, key, value, u)
           \/ \E value \in Strs : Document_add_metadata_str(i, key, value, u)
CallNeuralDB_new(outcomes) ==
    \E save_path \in Paths, e \in outcomes, u \in OverflowUB :
        NeuralDB_new(save_path, e, u)
CallNeuralDB_insert(outcomes) ==
    \E e \in outcomes, u \in OverflowUB : EngineAccepts(e) /\ NeuralDB_insert(e, u)
CallNeuralDB_query(outcomes, scores) ==
    \E query \in Queries, topk \in TopKs, e \in outcomes, u \in OverflowUB :
        \E answer \in Answers(e, topk, scores) :
            NeuralDB_query(query, topk, e, answer, u)
CallNeuralDB_save(outcomes) ==
    \E save_path \in Paths, e \in outcomes, u \in OverflowUB :
        NeuralDB_save(save_path, e, u)
CallQueryResults_metadata ==
    \E i \in ResultIndexes :
        \E order \in MapOrders(ResultAt(i).val.chunk.metadata) :
            QueryResults_metadata(i, order)

\* The Document builder alone
NextBuilder ==
    \/ CallDocument_new
    \/ Document_free
    \/ CallDocument_add_chunk({"alpha"})
    \/ CallDocument_set_version({7})
    \/ CallDocument_add_metadata(Keys, {TRUE})

SpecBuilder == Init /\ [][NextBuilder]_vars

\* One Document, its keys set and set again to values of every kind
NextOverwrite ==
    \/ CallDocument_new
    \/ CallDocument_add_chunk({"alpha"})
    \/ CallDocument_set_version({7})
    \/ CallDocument_add_metadata_inRange(Keys, {TRUE})

SpecOverwrite == Init /\ [][NextOverwrite]_vars

\* The fallible operations and the error slot; the caller may leave an old
\* description in the slot
NextErr ==
    \/ CallDocument_new
    \/ CallDocument_add_chunk({"alpha"})
    \/ CallNeuralDB_new(EngineOutcomes)
    \/ NeuralDB_free
    \/ CallNeuralDB_insert(EngineOutcomes)
    \/ CallNeuralDB_query(EngineOutcomes, Scores)
    \/ QueryResults_free
    \/ CallNeuralDB_save(EngineOutcomes)
    \/ ReleaseError

SpecErr == Init /\ [][NextErr]_vars

\* A caller that reads and releases a description before its next call
ErrorHandled == err = 0

\* Building and inserting Documents
NextInsert ==
    \/ CallDocument_new
    \/ Document_free
    \/ CallDocument_add_chunk({"alpha"})
    \/ CallDocument_set_version(Versions)
    \/ CallDocument_add_metadata_bool({"k1"}, {TRUE})
    \/ ErrorHandled /\ CallNeuralDB_new(EngineOutcomes)
    \/ ErrorHandled /\ CallNeuralDB_insert(EngineOutcomes)
    \/ ReleaseError

SpecInsert == Init /\ [][NextInsert]_vars

\* From a Document to the metadata list of a query result
NextRoundTrip ==
    \/ CallDocument_new
    \/ CallDocument_add_chunk({"alpha"})
    \/ CallDocument_add_metadata({"k1"}, {TRUE})
    \/ ErrorHandled /\ CallNeuralDB_new(ShortOutcomes)
    \/ ErrorHandled /\ CallNeuralDB_insert(ShortOutcomes)
    \/ ErrorHandled /\ CallNeuralDB_query(ShortOutcomes, {1})
    \/ CallQueryResults_metadata
    \/ ReleaseError

SpecRoundTrip == Init /\ [][NextRoundTrip]_vars

\* The lifetimes of query results and of the metadata lists made from them
Next ==
    \/ CallDocument_new
    \/ CallDocument_add_chunk({"alpha"})
    \/ CallDocument_add_metadata_bool({"k1"}, {TRUE})
    \/ ErrorHandled /\ CallNeuralDB_new(ShortOutcomes)
    \/ ErrorHandled /\ CallNeuralDB_insert(ShortOutcomes)
    \/ ErrorHandled /\ CallNeuralDB_query(ShortOutcomes, {1})
    \/ QueryResults_free
    \/ CallQueryResults_metadata
    \/ MetadataList_free
    \/ ReleaseError

Spec == Init /\ [][Next]_vars

\* Reading query results and metadata lists; the Documents have one chunk and
\* are inserted once or more
NextAccess ==
    \/ CallDocument_new
    \/ Len(doc.d.chunks) = 0 /\ CallDocument_add_chunk({"alpha"})
    \/ CallDocument_add_metadata({"k1"}, {TRUE})
    \/ ErrorHandled /\ CallNeuralDB_new(ShortOutcomes)
    \/ ErrorHandled /\ CallNeuralDB_insert(ShortOutcomes)
    \/ ErrorHandled /\ CallNeuralDB_query(ShortOutcomes, Scores)
    \/ ReleaseError
    \/ QueryResults_len
    \/ \E i \in ResultIndexes : QueryResults_id(i)
    \/ \E i \in ResultIndexes : QueryResults_text(i)
    \/ \E i \in ResultIndexes : QueryResults_document(i)
    \/ \E i \in ResultIndexes : QueryResults_doc_id(i)
    \/ \E i \in ResultIndexes : QueryResults_doc_version(i)
    \/ \E i \in ResultIndexes : QueryResults_score(i)
    \/ CallQueryResults_metadata
    \/ MetadataList_len
    \/ \E i \in EntryIndexes : MetadataList_key(i)
    \/ \E i \in EntryIndexes : MetadataList_type(i)
    \/ \E i \in EntryIndexes : MetadataList_bool(i)
    \/ \E i \in EntryIndexes : MetadataList_int(i)
    \/ \E i \in EntryIndexes : MetadataList_float(i)
    \/ \E i \in EntryIndexes : MetadataList_str(i)

SpecAccess == Init /\ [][NextAccess]_vars

(***************************************************************************)
(* The claims.                                                             *)
(***************************************************************************)
AddMetadataOps ==
    {"Document_add_metadata_bool", "Document_add_metadata_int",
     "Document_add_metadata_float", "Document_add_metadata_str"}
ResultAccessorOps ==
    {"QueryResults_id", "QueryResults_text", "QueryResults_document",
     "QueryResults_doc_id", "QueryResults_doc_version", "QueryResults_score",
     "QueryResults_metadata"}
ListAccessorOps ==
    {"MetadataList_key", "MetadataList_type", "MetadataList_bool",
     "MetadataList_int", "MetadataList_float", "MetadataList_str"}

\* What the error slot must be after a fallible operation whose engine call
\* had outcome e: untouched on success; on failure the address of a buffer
\* that was not allocated before the call and holds a non-empty description,
\* with the null result when the operation returns one
SlotContract(e, nullResult) ==
    IF e.ok
    THEN err' = err
    ELSE /\ err' # 0
         /\ err' \notin DOMAIN heap
         /\ err' \in DOMAIN heap'
         /\ Len(heap'[err'].bytes) >= 1
         /\ heap'[err'].bytes[1] # 0
         /\ nullResult => ret'.kind = "null"

C2_DescriptionInsideAllocation ==
    \A a \in DOMAIN heap :
        /\ Len(heap[a].bytes) <= heap[a].size
        /\ heap[a].bytes # <<>> => heap[a].size = strlen(heap[a].bytes) + 1

\* C3: the chunk sequence and the metadata sequence of a Document have equal
\* length in every state reached by builder calls with in-range indexes;
\* Document_new makes both empty, and Document_add_chunk grows both by one,
\* the new metadata map being empty.
C3_ChunksMetadataAligned ==
    /\ [](DocLive => Len(doc.d.chunks) = Len(doc.d.metadata))
    /\ [][/\ \A document \in Names, doc_id \in DocIds :
               Document_new(document, doc_id) =>
                   doc'.d.chunks = <<>> /\ doc'.d.metadata = <<>>
          /\ \A chunk \in Texts :
               Document_add_chunk(chunk) =>
                   /\ Len(doc'.d.chunks) = Len(doc.d.chunks) + 1
                   /\ Len(doc'.d.metadata) = Len(doc.d.metadata) + 1
                   /\ doc'.d.chunks[Len(doc'.d.chunks)] = chunk
                   /\ DOMAIN doc'.d.metadata[Len(doc'.d.metadata)] = {}
                   /\ SubSeq(doc'.d.chunks, 1, Len(doc.d.chunks)) = doc.d.chunks
                   /\ SubSeq(doc'.d.metadata, 1, Len(doc.d.metadata)) = doc.d.metadata
         ]_vars
C3_Witness ==
    /\ DocLive
    /\ Len(doc.d.chunks) = 2
    /\ Len(doc.d.metadata) = 2
    /\ DOMAIN doc.d.metadata[1] = {"k1"}
    /\ DOMAIN doc.d.metadata[2] = {}
    /\ doc.d.doc_version.has

\* C4: Document_add_metadata_* with a chunk index that is not below the
\* number of chunks signals a fault and never reads or writes outside the
\* metadata sequence.
C4_OutOfRangeIsFault ==
    fault.op \in AddMetadataOps => fault.kind = "trap"

\* C5: every per-index accessor of a query result collection, called with an
\* index that is not below its length, signals an out-of-range fault and
\* returns no value; so does every per-index accessor of a metadata list.
C5_AccessorsCheckIndex ==
    /\ (ret.op \in ResultAccessorOps /\ ret.i >= Len(results.results)) =>
           (fault = [kind |-> "out_of_range", op |-> ret.op] /\ ret.kind = "none")
    /\ (ret.op \in ListAccessorOps /\ ret.i >= Len(view.metadata)) =>
           (fault = [kind |-> "out_of_range", op |-> ret.op] /\ ret.kind = "none")
C5_Witness ==
    /\ ret.op = "QueryResults_score"
    /\ Len(results.results) = 1
    /\ ret.i = 1
    /\ fault.kind = "out_of_range"

\* C6: the metadata list made from a query result holds, for every key that
\* was set on that chunk before its Document was inserted, exactly one entry
\* with that key, and the entry carries the tag and the value of the last
\* call that set the key.
C6_MetadataRoundTrip ==
    view.st = "live" =>
        \A k \in DOMAIN sent[viewSrc.id + 1] :
            /\ Cardinality({j \in DOMAIN view.metadata : view.metadata[j].key = k}) = 1
            /\ \A j \in DOMAIN view.metadata :
                   view.metadata[j].key = k =>
                       view.metadata[j].value = sent[viewSrc.id + 1][k]
C6_Witness ==
    /\ view.st = "live"
    /\ viewSrc.id = 1
    /\ Len(view.metadata) = 1
    /\ view.metadata[1].value = MetadataValue_Float(25)
    /\ store[1].metadata = [k1 |-> MetadataValue_Bool(TRUE)]

\* C7: NeuralDB_insert hands the engine the five fields of the Document in
\* one insert call and leaves the Document live and unchanged, whether the
\* engine call succeeds or fails; a live Document stops being live only by
\* Document_free.
C7_InsertKeepsDocument ==
    [][/\ \A e \in EngineOutcomes, u \in OverflowUB :
            NeuralDB_insert(e, u) =>
                /\ doc' = doc
                /\ passed' = [called |-> TRUE, d |-> doc.d]
       /\ (doc.st = "live" /\ doc' # doc /\ passed.called) => Document_free
      ]_vars
C7_Witness ==
    /\ Running
    /\ passed.called
    /\ doc.st = "live"
    /\ passed.d = doc.d
    /\ Len(doc.d.chunks) = 2
    /\ DOMAIN doc.d.metadata[2] = {"k1"}
    /\ doc.d.doc_version.has
    /\ Len(store) = 2

\* C8 (as stated): once a query result collection is released, no metadata
\* list made from it is live.
C8_ListsReleasedWithCollection ==
    viewSrc.released => view.st # "live"
\* C8 (amended): QueryResults_free releases the collection only; a metadata
\* list made from it stays live with its entries unchanged, and only
\* MetadataList_free releases it.
C8_ListOutlivesCollection ==
    [][/\ QueryResults_free => view' = view
       /\ (view.st = "live" /\ view' # view) => MetadataList_free
      ]_vars
C8_Witness ==
    /\ viewSrc.released
    /\ results.st = "freed"
    /\ view.st = "live"
    /\ Len(view.metadata) = 1

\* C9: a new Document has no version; the version NeuralDB_insert hands the
\* engine is absent when Document_set_version was never called and is
\* otherwise the argument of the last call; Document_set_version changes no
\* other field.
C9_VersionLastWriteWins ==
    [][/\ \A document \in Names, doc_id \in DocIds :
            Document_new(document, doc_id) => ~doc'.d.doc_version.has
       /\ \A e \in EngineOutcomes, u \in OverflowUB :
            NeuralDB_insert(e, u) =>
                passed'.d.doc_version = [has |-> verLog.has, val |-> verLog.val]
       /\ \A version \in Versions :
            Document_set_version(version) =>
                /\ doc'.d.doc_version = [has |-> TRUE, val |-> version]
                /\ [doc'.d EXCEPT !.doc_version = doc.d.doc_version] = doc.d
                /\ doc'.st = doc.st
      ]_vars
C9_Witness ==
    /\ passed.called
    /\ verLog.hadPrev
    /\ verLog.prev = 7
    /\ verLog.val = 8
    /\ passed.d.doc_version = [has |-> TRUE, val |-> 8]

\* C10: Document_add_metadata_* with an in-range chunk index makes the map
\* of that chunk hold the new value and tag under the key, and changes no
\* other key of that map, no other chunk's map, and no other field.
MetadataSet(i, key, value) ==
    /\ doc'.d.metadata[i + 1][key] = value
    /\ DOMAIN doc'.d.metadata[i + 1] = (DOMAIN doc.d.metadata[i + 1]) \cup {key}
    /\ \A k \in DOMAIN doc.d.metadata[i + 1] :
           k # key => doc'.d.metadata[i + 1][k] = doc.d.metadata[i + 1][k]
    /\ Len(doc'.d.metadata) = Len(doc.d.metadata)
    /\ \A j \in DOMAIN doc.d.metadata :
           j # i + 1 => doc'.d.metadata[j] = doc.d.metadata[j]
    /\ [doc'.d EXCEPT !.metadata = doc.d.metadata] = doc.d
    /\ doc'.st = doc.st
C10_MetadataOverwriteFrame ==
    [][\A i \in ChunkIndexes, key \in Keys, u \in IndexUB :
          i < Len(doc.d.metadata) =>
              /\ \A value \in Bools :
                    Document_add_metadata_bool(i, key, value, u) =>
                        MetadataSet(i, key, MetadataValue_Bool(value))
              /\ \A value \in Ints :
                    Document_add_metadata_int(i, key, value, u) =>
                        MetadataSet(i, key, MetadataValue_Int(value))
              /\ \A value \in Floats :
                    Document_add_metadata_float(i, key, value, u) =>
                        MetadataSet(i, key, MetadataValue_Float(value))
              /\ \A value \in Strs :
                    Document_add_metadata_str(i, key, value, u) =>
                        MetadataSet(i, key, MetadataValue_Str(value))]_vars
C10_Witness ==
    /\ DocLive
    /\ setLog.replaced
    /\ Len(doc.d.chunks) = 2
    /\ doc.d.metadata[1] = [k1 |-> MetadataValue_Str("s"), k2 |-> MetadataValue_Int(-3)]
    /\ doc.d.metadata[2] = [k2 |-> MetadataValue_Float(25)]

=============================================================================
